---- MODULE Spec2Model ----
(***************************************************************************)
(* Intrusive doubly-linked list (namespace intrusive), in its two          *)
(* realizations:                                                           *)
(*   "H" : src/intrusive_list.h    (an empty chain has first == nullptr)   *)
(*   "P" : src/unnamed/part_000    (an empty chain has first == &after_last)*)
(* Pointers are node numbers: 0 is nullptr, 1..NumElems are the            *)
(* list_element bases of the user's elements, NumElems + c is the          *)
(* after_last sentinel of chain c.                                         *)
(***************************************************************************)
EXTENDS Integers, Sequences, FiniteSets

VARIABLES impl, prev, next, first, live, alive, mem, dropped, last, old, steps

vars == <<impl, prev, next, first, live, alive, mem, dropped, last, old, steps>>

\* ------------------------------------------------------------------ bounds
\* elements that exist (storage for the five-element scenario)
NumElems == 5
\* elements the callers of Spec and SpecLife insert
MaxPushed == 3
\* calls in one run of Spec and SpecLife
MaxSteps == 4
\* splices after the pushes in one run of SpecSelf
MaxSplices == 1

Null == 0
\* the mark a traversal ends with when it does not arrive
Bad == Null - 1
Chains == {1, 2}
Elems == 1 .. NumElems
Sent(c) == NumElems + c
Nodes == Elems \cup {Sent(c) : c \in Chains}
Ptr == Nodes \cup {Null}

\* ----------------------------------------------------- sequence helpers
\* (the caller's view of a chain: the sequence of elements it holds)
Range(q) == {q[i] : i \in 1 .. Len(q)}
Reverse(q) == [i \in 1 .. Len(q) |-> q[Len(q) + 1 - i]]
\* position index of cursor n in a chain whose members are q: a member's
\* index, or Len(q) + 1 for the end position
IdxOf(q, n) == IF n \in Range(q) THEN CHOOSE i \in 1 .. Len(q) : q[i] = n ELSE Len(q) + 1
InsertSeqAt(q, i, r) == SubSeq(q, 1, i - 1) \o r \o SubSeq(q, i, Len(q))
RemoveRange(q, i, j) == SubSeq(q, 1, i - 1) \o SubSeq(q, j, Len(q))
Without(q, e) == IF e \in Range(q) THEN RemoveRange(q, IdxOf(q, e), IdxOf(q, e) + 1) ELSE q
Members == UNION {Range(mem[c]) : c \in Chains}
Pos(c) == Range(mem[c]) \cup {Sent(c)}

\* ------------------------------------------------------- memory accesses
\* The heap an operation works on: the link fields, the first fields, and
\* ok, which turns FALSE when the operation dereferences nullptr or the
\* storage of a destroyed element (undefined behaviour: the step is not
\* taken by the model).
Cur == [prev |-> prev, next |-> next, first |-> first, ok |-> TRUE]
Deref(n) == n \in Nodes /\ (n \in Elems => n \in alive)
Chk(s, n) == IF Deref(n) THEN s ELSE [s EXCEPT !.ok = FALSE]
GetPrev(s, n) == IF n \in Nodes THEN s.prev[n] ELSE Null
GetNext(s, n) == IF n \in Nodes THEN s.next[n] ELSE Null
SetPrev(s, n, v) == IF Deref(n) THEN [s EXCEPT !.prev[n] = v] ELSE [s EXCEPT !.ok = FALSE]
SetNext(s, n, v) == IF Deref(n) THEN [s EXCEPT !.next[n] = v] ELSE [s EXCEPT !.ok = FALSE]
SetFirst(s, c, v) == [s EXCEPT !.first[c] = v]

\* ------------------------------------------------------ list_element
\* intrusive_list.h: unlink patches the neighbours and keeps its own fields
unlink_H(s, e) ==
    LET s1 == IF GetPrev(s, e) # Null
              THEN SetNext(s, GetPrev(s, e), GetNext(s, e))
              ELSE s
        s2 == IF GetNext(s1, e) # Null
              THEN SetPrev(s1, GetNext(s1, e), GetPrev(s1, e))
              ELSE s1
    IN  s2

\* part_000: unlink clears next after patching prev, and so skips the
\* second patch whenever prev was present
unlink_P(s, e) ==
    LET s1 == IF GetPrev(s, e) # Null
              THEN SetNext(SetNext(s, GetPrev(s, e), GetNext(s, e)), e, Null)
              ELSE s
        s2 == IF GetNext(s1, e) # Null
              THEN SetPrev(SetPrev(s1, GetNext(s1, e), GetPrev(s1, e)), e, Null)
              ELSE s1
    IN  s2

unlink(s, e) == IF impl = "H" THEN unlink_H(Chk(s, e), e) ELSE unlink_P(Chk(s, e), e)

\* ------------------------------------------------------------- list
EmptyFirst(c) == IF impl = "H" THEN Null ELSE Sent(c)

end(c) == Sent(c)

begin_H(s, c) == IF s.first[c] = Null THEN end(c) ELSE s.first[c]

begin_P(s, c) == s.first[c]

begin(s, c) == IF impl = "H" THEN begin_H(s, c) ELSE begin_P(s, c)

empty_H(s, c) == s.first[c] = Null

empty_P(s, c) == s.first[c] = Sent(c)

empty(s, c) == IF impl = "H" THEN empty_H(s, c) ELSE empty_P(s, c)

front(s, c) == s.first[c]

back(s, c) == s.prev[Sent(c)]

clear_H(s, c) == SetPrev(SetFirst(s, c, Null), Sent(c), Null)

clear_P(s, c) == SetPrev(SetFirst(s, c, Sent(c)), Sent(c), Null)

clear(s, c) == IF impl = "H" THEN clear_H(s, c) ELSE clear_P(s, c)

\* insert(pos, elem): the same text in both files
insert(s, c, p, new_el) ==
    LET s0 == Chk(Chk(s, p), new_el)
        s1 == IF GetPrev(s0, p) # Null
              THEN SetNext(s0, GetPrev(s0, p), new_el)
              ELSE SetFirst(s0, c, new_el)
        s2 == SetPrev(s1, new_el, GetPrev(s1, p))
        s3 == SetPrev(s2, p, new_el)
        s4 == SetNext(s3, new_el, p)
    IN  s4

\* erase without `first = p->next`
erase_keepFirst(s, c, p) ==
    IF p # Sent(c)
    THEN LET s0 == Chk(s, p)
             s1 == SetPrev(s0, GetNext(s0, p), GetPrev(s0, p))
             s2 == IF GetPrev(s1, p) # Null
                   THEN SetNext(s1, GetPrev(s1, p), GetNext(s1, p))
                   ELSE s1
         IN  s2
    ELSE s

\* erase(pos): the same text in both files; the links of the erased
\* element itself are not written
erase(s, c, p) ==
    IF p # end(c)
    THEN LET s0 == Chk(s, p)
             s1 == SetPrev(s0, GetNext(s0, p), GetPrev(s0, p))
             s2 == IF GetPrev(s1, p) # Null
                   THEN SetNext(s1, GetPrev(s1, p), GetNext(s1, p))
                   ELSE SetFirst(s1, c, GetNext(s1, p))
         IN  s2
    ELSE s

\* erase returning pos->next without the pos != end() test
eraseRet_next(s, c, p) == GetNext(erase(s, c, p), p)

eraseRet(s, c, p) == IF p # end(c) THEN GetNext(erase(s, c, p), p) ELSE end(c)

\* splice that rewrites donor.first whether or not the range starts there
splice_alwaysFirst(s, c, it0, d, it1, it2) ==
    IF it1 = it2
    THEN s
    ELSE LET after_incision == it0
             from == it1
             to == it2
             s0 == Chk(Chk(Chk(s, from), to), after_incision)
             t1 == IF GetPrev(s0, from) # Null
                   THEN SetNext(s0, GetPrev(s0, from), to)
                   ELSE s0
             s1 == IF it2 # end(d)
                   THEN SetFirst(t1, d, to)
                   ELSE SetFirst(t1, d, EmptyFirst(d))
             s2 == IF GetPrev(s1, after_incision) # Null
                   THEN SetNext(s1, GetPrev(s1, after_incision), from)
                   ELSE SetFirst(s1, c, from)
             before_incision == GetPrev(s2, after_incision)
             s3 == SetPrev(s2, after_incision, GetPrev(s2, to))
             s4 == SetNext(s3, GetPrev(s3, to), after_incision)
             s5 == SetPrev(s4, to, GetPrev(s4, from))
             s6 == SetPrev(s5, from, before_incision)
         IN  s6

\* splice without `to->prev = from->prev`
splice_keepToPrev(s, c, it0, d, it1, it2) ==
    IF it1 = it2
    THEN s
    ELSE LET after_incision == it0
             from == it1
             to == it2
             s0 == Chk(Chk(Chk(s, from), to), after_incision)
             s1 == IF GetPrev(s0, from) # Null
                   THEN SetNext(s0, GetPrev(s0, from), to)
                   ELSE IF it2 # end(d)
                        THEN SetFirst(s0, d, to)
                        ELSE SetFirst(s0, d, EmptyFirst(d))
             s2 == IF GetPrev(s1, after_incision) # Null
                   THEN SetNext(s1, GetPrev(s1, after_incision), from)
                   ELSE SetFirst(s1, c, from)
             before_incision == GetPrev(s2, after_incision)
             s3 == SetPrev(s2, after_incision, GetPrev(s2, to))
             s4 == SetNext(s3, GetPrev(s3, to), after_incision)
             s6 == SetPrev(s4, from, before_incision)
         IN  s6

\* splice reading before_incision only after after_incision->prev is
\* overwritten
splice_lateBefore(s, c, it0, d, it1, it2) ==
    IF it1 = it2
    THEN s
    ELSE LET after_incision == it0
             from == it1
             to == it2
             s0 == Chk(Chk(Chk(s, from), to), after_incision)
             s1 == IF GetPrev(s0, from) # Null
                   THEN SetNext(s0, GetPrev(s0, from), to)
                   ELSE IF it2 # end(d)
                        THEN SetFirst(s0, d, to)
                        ELSE SetFirst(s0, d, EmptyFirst(d))
             s2 == IF GetPrev(s1, after_incision) # Null
                   THEN SetNext(s1, GetPrev(s1, after_incision), from)
                   ELSE SetFirst(s1, c, from)
             s3 == SetPrev(s2, after_incision, GetPrev(s2, to))
             before_incision == GetPrev(s3, after_incision)
             s4 == SetNext(s3, GetPrev(s3, to), after_incision)
             s5 == SetPrev(s4, to, GetPrev(s4, from))
             s6 == SetPrev(s5, from, before_incision)
         IN  s6

\* splice(it0, donor, it1, it2) of chain c: the same text in both files but
\* for the value donor.first takes when the range is all of donor
splice(s, c, it0, d, it1, it2) ==
    IF it1 = it2
    THEN s
    ELSE LET after_incision == it0
             from == it1
             to == it2
             s0 == Chk(Chk(Chk(s, from), to), after_incision)
             s1 == IF GetPrev(s0, from) # Null
                   THEN SetNext(s0, GetPrev(s0, from), to)
                   ELSE IF it2 # end(d)
                        THEN SetFirst(s0, d, to)
                        ELSE SetFirst(s0, d, EmptyFirst(d))
             s2 == IF GetPrev(s1, after_incision) # Null
                   THEN SetNext(s1, GetPrev(s1, after_incision), from)
                   ELSE SetFirst(s1, c, from)
             before_incision == GetPrev(s2, after_incision)
             s3 == SetPrev(s2, after_incision, GetPrev(s2, to))
             s4 == SetNext(s3, GetPrev(s3, to), after_incision)
             s5 == SetPrev(s4, to, GetPrev(s4, from))
             s6 == SetPrev(s5, from, before_incision)
         IN  s6

push_back_H(s, c, p) ==
    LET al == Sent(c)
        s0 == Chk(s, p)
        s1 == IF GetPrev(s0, al) # Null
              THEN LET t == SetNext(s0, GetPrev(s0, al), p)
                   IN  SetPrev(t, p, GetPrev(t, al))
              ELSE s0
        s2 == SetPrev(s1, al, p)
        s3 == SetNext(s2, p, al)
        s4 == IF s3.first[c] = Null THEN SetFirst(s3, c, GetPrev(s3, al)) ELSE s3
    IN  s4

push_back_P(s, c, p) == insert(s, c, end(c), p)

push_back(s, c, p) == IF impl = "H" THEN push_back_H(s, c, p) ELSE push_back_P(s, c, p)

pop_back_H(s, c) ==
    LET al == Sent(c)
    IN  IF GetPrev(s, al) # Null /\ GetPrev(Chk(s, GetPrev(s, al)), GetPrev(s, al)) # Null
        THEN LET s0 == Chk(s, GetPrev(s, al))
                 s1 == SetNext(s0, GetPrev(s0, GetPrev(s0, al)), al)
                 s2 == SetPrev(s1, al, GetPrev(s1, GetPrev(s1, al)))
             IN  s2
        ELSE IF GetPrev(s, al) # Null
             THEN clear_H(Chk(s, GetPrev(s, al)), c)
             ELSE clear_H(s, c)

pop_back_P(s, c) == erase(s, c, GetPrev(s, Sent(c)))

pop_back(s, c) == IF impl = "H" THEN pop_back_H(s, c) ELSE pop_back_P(s, c)

push_front_H(s, c, p) ==
    LET al == Sent(c)
        s1 == SetPrev(s, p, Null)
        s2 == IF s1.first[c] # Null
              THEN LET t == SetPrev(s1, s1.first[c], p)
                   IN  SetNext(t, p, t.first[c])
              ELSE s1
        s3 == SetFirst(s2, c, p)
        s4 == IF GetPrev(s3, al) = Null THEN SetPrev(s3, al, s3.first[c]) ELSE s3
    IN  s4

push_front_P(s, c, p) == insert(s, c, begin_P(s, c), p)

push_front(s, c, p) == IF impl = "H" THEN push_front_H(s, c, p) ELSE push_front_P(s, c, p)

pop_front_H(s, c) ==
    IF s.first[c] # Null /\ GetNext(Chk(s, s.first[c]), s.first[c]) # Null
    THEN LET s0 == Chk(s, s.first[c])
             s1 == SetPrev(s0, GetNext(s0, s0.first[c]), Null)
             s2 == SetFirst(s1, c, GetNext(s1, s1.first[c]))
         IN  s2
    ELSE IF s.first[c] # Null
         THEN clear_H(Chk(s, s.first[c]), c)
         ELSE clear_H(s, c)

pop_front_P(s, c) == erase(s, c, begin_P(s, c))

pop_front(s, c) == IF impl = "H" THEN pop_front_H(s, c) ELSE pop_front_P(s, c)

\* list &operator=(list &&other)
move_assign_H(s, c, d) ==
    LET s1 == SetFirst(s, c, s.first[d])
        s2 == SetPrev(s1, Sent(c), GetPrev(s1, Sent(d)))
        s3 == IF GetPrev(s2, Sent(c)) # Null
              THEN SetNext(s2, GetPrev(s2, Sent(c)), Sent(c))
              ELSE s2
        s4 == SetFirst(SetPrev(s3, Sent(d), Null), d, Null)
    IN  s4

move_assign_P(s, c, d) ==
    LET s1 == clear_P(s, c)
    IN  splice(s1, c, begin_P(s1, c), d, begin_P(s1, d), end(d))

move_assign(s, c, d) == IF impl = "H" THEN move_assign_H(s, c, d) ELSE move_assign_P(s, c, d)

\* list() and the default member initializers
construct(s, c) ==
    LET s1 == SetFirst(s, c, EmptyFirst(c))
    IN  [s1 EXCEPT !.prev[Sent(c)] = Null, !.next[Sent(c)] = Null]

\* list(list &&other)
move_construct_H(s, c, d) == move_assign_H(construct(s, c), c, d)

move_construct_P(s, c, d) ==
    LET s1 == construct(s, c)
    IN  splice(s1, c, begin_P(s1, c), d, begin_P(s1, d), end(d))

move_construct(s, c, d) ==
    IF impl = "H" THEN move_construct_H(s, c, d) ELSE move_construct_P(s, c, d)

\* ------------------------------------------------------------ the machine
NoCall == [op |-> "none", c |-> 0, d |-> 0, x |-> 0, pos |-> 0, from |-> 0, to |-> 0, ret |-> 0]
NoOld == [prev |-> <<>>, next |-> <<>>, first |-> <<>>, mem |-> <<>>, alive |-> {},
          dropped |-> <<>>]
Snapshot == [prev |-> prev, next |-> next, first |-> first, mem |-> mem, alive |-> alive,
             dropped |-> dropped]

Init ==
    /\ impl \in {"H", "P"}
    /\ prev = [n \in Nodes |-> Null]
    /\ next = [n \in Nodes |-> Null]
    /\ first = [c \in Chains |-> EmptyFirst(c)]
    /\ live \in {{1}, {1, 2}}
    /\ alive = Elems
    /\ mem = [c \in Chains |-> <<>>]
    /\ dropped = [c \in Chains |-> {}]
    /\ last = NoCall
    /\ old = NoOld
    /\ steps = 0

\* An operation is called only between calls (last.op = "none"); the state
\* right after the call keeps the call and the heap it started from, until
\* Return.
Idle == last.op = "none"

\* The former members each chain has dropped from its view, by clear() or
\* as the target of a move-assignment, that have not been linked, unlinked
\* or destroyed since.
DroppedAfter(call, m) ==
    [c \in Chains |->
        (dropped[c] \cup (IF call.op \in {"clear", "move_assign"} /\ call.c = c
                          THEN Range(mem[c])
                          ELSE {}))
        \ (UNION {Range(m[k]) : k \in Chains} \cup {call.x})]

Commit(r, call, m) ==
    /\ steps' = steps + 1
    /\ r.ok
    /\ prev' = r.prev
    /\ next' = r.next
    /\ first' = r.first
    /\ mem' = m
    /\ dropped' = DroppedAfter(call, m)
    /\ last' = call
    /\ old' = Snapshot
    /\ UNCHANGED impl

Return ==
    /\ ~Idle
    /\ last' = NoCall
    /\ old' = NoOld
    /\ UNCHANGED <<impl, prev, next, first, live, alive, mem, dropped, steps>>

\* A never-linked element that nothing refers to; such elements are
\* interchangeable, and the caller takes the least of them.
Pristine(x) ==
    /\ x \in alive /\ x \notin Members
    /\ prev[x] = Null /\ next[x] = Null
    /\ \A n \in Nodes : prev[n] # x /\ next[n] # x
    /\ \A c \in Chains : first[c] # x

\* elem's precondition for push_front, push_back and insert: not a member
\* of any chain (its link fields may be stale from an earlier membership)
Fresh(x) ==
    /\ x \in alive /\ x \notin Members
    /\ Pristine(x) => \A y \in 1 .. x - 1 : ~Pristine(y)

MoveConstruct(c, d) ==
    /\ Idle /\ c \notin live /\ d \in live
    /\ Commit(move_construct(Cur, c, d),
              [NoCall EXCEPT !.op = "move_construct", !.c = c, !.d = d],
              [mem EXCEPT ![c] = mem[d], ![d] = <<>>])
    /\ live' = live \cup {c}
    /\ UNCHANGED alive

MoveAssign(c, d) ==
    /\ Idle /\ c \in live /\ d \in live /\ c # d
    /\ Commit(move_assign(Cur, c, d),
              [NoCall EXCEPT !.op = "move_assign", !.c = c, !.d = d],
              [mem EXCEPT ![c] = mem[d], ![d] = <<>>])
    /\ UNCHANGED <<live, alive>>

Clear(c) ==
    /\ Idle /\ c \in live
    /\ Commit(clear(Cur, c), [NoCall EXCEPT !.op = "clear", !.c = c],
              [mem EXCEPT ![c] = <<>>])
    /\ UNCHANGED <<live, alive>>

PushBack(c, x) ==
    /\ Idle /\ c \in live /\ Fresh(x)
    /\ Commit(push_back(Cur, c, x), [NoCall EXCEPT !.op = "push_back", !.c = c, !.x = x],
              [mem EXCEPT ![c] = Append(mem[c], x)])
    /\ UNCHANGED <<live, alive>>

PushFront(c, x) ==
    /\ Idle /\ c \in live /\ Fresh(x)
    /\ Commit(push_front(Cur, c, x), [NoCall EXCEPT !.op = "push_front", !.c = c, !.x = x],
              [mem EXCEPT ![c] = <<x>> \o mem[c]])
    /\ UNCHANGED <<live, alive>>

PopBack(c) ==
    /\ Idle /\ c \in live /\ mem[c] # <<>>
    /\ Commit(pop_back(Cur, c), [NoCall EXCEPT !.op = "pop_back", !.c = c],
              [mem EXCEPT ![c] = SubSeq(mem[c], 1, Len(mem[c]) - 1)])
    /\ UNCHANGED <<live, alive>>

PopFront(c) ==
    /\ Idle /\ c \in live /\ mem[c] # <<>>
    /\ Commit(pop_front(Cur, c), [NoCall EXCEPT !.op = "pop_front", !.c = c],
              [mem EXCEPT ![c] = Tail(mem[c])])
    /\ UNCHANGED <<live, alive>>

Insert(c, pos, x) ==
    /\ Idle /\ c \in live /\ Fresh(x) /\ pos \in Pos(c)
    /\ Commit(insert(Cur, c, pos, x),
              [NoCall EXCEPT !.op = "insert", !.c = c, !.pos = pos, !.x = x, !.ret = x],
              [mem EXCEPT ![c] = InsertSeqAt(mem[c], IdxOf(mem[c], pos), <<x>>)])
    /\ UNCHANGED <<live, alive>>

Erase(c, pos) ==
    /\ Idle /\ c \in live /\ pos \in Pos(c)
    /\ Commit(erase(Cur, c, pos),
              [NoCall EXCEPT !.op = "erase", !.c = c, !.pos = pos,
                             !.ret = eraseRet(Cur, c, pos)],
              [mem EXCEPT ![c] = Without(mem[c], pos)])
    /\ UNCHANGED <<live, alive>>

\* what splice is to do to the caller's view
SpliceMem(m, c, pos, d, from, to) ==
    LET i1 == IdxOf(m[d], from)
        i2 == IdxOf(m[d], to)
        i0 == IdxOf(m[c], pos)
        r == SubSeq(m[d], i1, i2 - 1)
        rest == RemoveRange(m[d], i1, i2)
    IN  IF c # d
        THEN [m EXCEPT ![d] = rest, ![c] = InsertSeqAt(m[c], i0, r)]
        ELSE [m EXCEPT ![c] = InsertSeqAt(rest, IF i0 < i1 THEN i0 ELSE i0 - (i2 - i1), r)]

\* a valid call: [from, to) is a range of donor in order, pos a position of
\* the receiver that is not inside the range
Splice(c, pos, d, from, to) ==
    /\ Idle /\ c \in live /\ d \in live
    /\ pos \in Pos(c) /\ from \in Pos(d) /\ to \in Pos(d)
    /\ IdxOf(mem[d], from) <= IdxOf(mem[d], to)
    /\ c = d => (IdxOf(mem[c], pos) < IdxOf(mem[d], from) \/ IdxOf(mem[c], pos) >= IdxOf(mem[d], to))
    /\ Commit(splice(Cur, c, pos, d, from, to),
              [NoCall EXCEPT !.op = "splice", !.c = c, !.d = d, !.pos = pos,
                             !.from = from, !.to = to],
              SpliceMem(mem, c, pos, d, from, to))
    /\ UNCHANGED <<live, alive>>

\* an explicit call of list_element::unlink on a user's element
Unlink(e) ==
    /\ Idle /\ e \in alive
    /\ Commit(unlink(Cur, e), [NoCall EXCEPT !.op = "unlink", !.x = e],
              [c \in Chains |-> Without(mem[c], e)])
    /\ UNCHANGED <<live, alive>>

\* the end of an element's lifetime: ~list_element runs unlink
Destroy(e) ==
    /\ Idle /\ e \in alive
    /\ Commit(unlink(Cur, e), [NoCall EXCEPT !.op = "destroy", !.x = e],
              [c \in Chains |-> Without(mem[c], e)])
    /\ alive' = alive \ {e}
    /\ UNCHANGED live


\* unlink called twice in a row on the same element
UnlinkTwice(e) ==
    /\ Idle /\ e \in alive
    /\ Commit(unlink(unlink(Cur, e), e), [NoCall EXCEPT !.op = "unlink;unlink", !.x = e],
              [c \in Chains |-> Without(mem[c], e)])
    /\ UNCHANGED <<live, alive>>

\* push_back(x) directly followed by pop_back() on the same chain
PushPopBack(c, x) ==
    /\ Idle /\ c \in live /\ Fresh(x)
    /\ Commit(pop_back(push_back(Cur, c, x), c),
              [NoCall EXCEPT !.op = "push_back;pop_back", !.c = c, !.x = x],
              mem)
    /\ UNCHANGED <<live, alive>>

\* erase(insert(pos, x)): the cursor insert returns goes straight to erase
InsertErase(c, pos, x) ==
    /\ Idle /\ c \in live /\ Fresh(x) /\ pos \in Pos(c)
    /\ Commit(erase(insert(Cur, c, pos, x), c, x),
              [NoCall EXCEPT !.op = "insert;erase", !.c = c, !.pos = pos, !.x = x,
                             !.ret = eraseRet(insert(Cur, c, pos, x), c, x)],
              mem)
    /\ UNCHANGED <<live, alive>>

ChainOp ==
    \/ \E c, d \in Chains : MoveConstruct(c, d)
    \/ \E c, d \in Chains : MoveAssign(c, d)
    \/ \E c \in Chains : Clear(c)
    \/ \E c \in Chains, x \in 1 .. MaxPushed : PushBack(c, x)
    \/ \E c \in Chains, x \in 1 .. MaxPushed : PushFront(c, x)
    \/ \E c \in Chains : PopBack(c)
    \/ \E c \in Chains : PopFront(c)
    \/ \E c \in Chains, pos \in Nodes, x \in 1 .. MaxPushed : Insert(c, pos, x)
    \/ \E c \in Chains, pos \in Nodes : Erase(c, pos)
    \/ \E c, d \in Chains, pos, from, to \in Nodes : Splice(c, pos, d, from, to)
    \/ \E c \in Chains, x \in 1 .. MaxPushed : PushPopBack(c, x)
    \/ \E c \in Chains, pos \in Nodes, x \in 1 .. MaxPushed : InsertErase(c, pos, x)

\* Spec: any MaxSteps calls of the chain operations on one or two chains
Next ==
    \/ steps < MaxSteps /\ ChainOp
    \/ Return

Spec == Init /\ [][Next]_vars

\* SpecLife: the same, with elements unlinked by hand and destroyed
LifeNext ==
    \/ steps < MaxSteps /\ ChainOp
    \/ steps < MaxSteps /\ \E e \in 1 .. MaxPushed : Unlink(e)
    \/ steps < MaxSteps /\ \E e \in 1 .. MaxPushed : Destroy(e)
    \/ steps < MaxSteps /\ \E e \in 1 .. MaxPushed : UnlinkTwice(e)
    \/ Return

SpecLife == Init /\ [][LifeNext]_vars

\* SpecSelf: one chain receives 1, 2, ... by push_back and is then spliced
\* into itself
SelfInit == Init /\ live = {1}

SelfPush ==
    /\ steps = Len(mem[1])
    /\ Len(mem[1]) < NumElems
    /\ PushBack(1, Len(mem[1]) + 1)

SelfSplice ==
    /\ steps < Len(mem[1]) + MaxSplices
    /\ \E pos, from, to \in Nodes : Splice(1, pos, 1, from, to)

SelfNext ==
    \/ SelfPush
    \/ SelfSplice
    \/ Return

SpecSelf == SelfInit /\ [][SelfNext]_vars

\* ------------------------------------------------------------ traversals
\* The heap of the current state, in the shape of the snapshot old.
Now == Snapshot

IsElem(h, n) == n \in Elems /\ n \in h.alive

\* for (it = begin(); it != end(); ++it): the elements visited; the walk ends
\* with Bad when it leaves the live elements or does not come to `stop`
\* within NumElems steps
RECURSIVE FwdFrom(_, _, _, _)
FwdFrom(h, n, stop, k) ==
    IF n = stop THEN <<>>
    ELSE IF k = 0 \/ ~IsElem(h, n) THEN <<Bad>>
    ELSE <<n>> \o FwdFrom(h, h.next[n], stop, k - 1)

Fwd(h, c) == FwdFrom(h, begin(h, c), end(c), NumElems)

\* following prev from after_last down to the null prev
RECURSIVE BwdFrom(_, _, _)
BwdFrom(h, n, k) ==
    IF n = Null THEN <<>>
    ELSE IF k = 0 \/ ~IsElem(h, n) THEN <<Bad>>
    ELSE <<n>> \o BwdFrom(h, h.prev[n], k - 1)

Bwd(h, c) == BwdFrom(h, h.prev[Sent(c)], NumElems)

\* chain c of heap h holds exactly the sequence q, forwards and backwards,
\* and its first field is the first member (the empty mark when q is empty)
WellFormed(h, c, q) ==
    /\ Fwd(h, c) = q
    /\ Bwd(h, c) = Reverse(q)
    /\ h.first[c] = (IF q = <<>> THEN EmptyFirst(c) ELSE q[1])

Called(op) == last.op = op

\* ----------------------------------------------------------------- C1
\* C1: in part_000, after any sequence of valid push/pop/insert/erase/splice/
\* move calls every chain is well formed: next from first reaches after_last
\* over exactly the members in order, prev from after_last visits them in
\* reverse and ends at first, whose prev is null.
C1_WellFormedP ==
    impl = "P" => \A c \in live : WellFormed(Now, c, mem[c])

\* ----------------------------------------------------------------- C2
\* C2: destroying a member of a (well-formed) chain removes it: forward and
\* backward iteration visit the remaining members in order, and neither
\* first, the sentinel nor a remaining member refers to the destroyed element.
C2_DestroyRemoves ==
    \A c \in live :
        (Called("destroy") /\ last.x \in Range(old.mem[c])
            /\ WellFormed(old, c, old.mem[c]))
        => /\ Fwd(Now, c) = Without(old.mem[c], last.x)
           /\ Bwd(Now, c) = Reverse(Without(old.mem[c], last.x))
           /\ first[c] # last.x
           /\ prev[Sent(c)] # last.x
           /\ \A m \in Range(mem[c]) : prev[m] # last.x /\ next[m] # last.x

\* ----------------------------------------------------------------- C3
SpliceCase == Called("splice") /\ last.from # last.to
TwoChainSplice ==
    /\ SpliceCase /\ last.c # last.d
    /\ WellFormed(old, last.c, old.mem[last.c])
    /\ WellFormed(old, last.d, old.mem[last.d])

\* C3: splice of a non-empty range between two distinct well-formed chains
\* leaves the receiver with the range inserted in order before pos and the
\* donor with its members outside the range; a donor that gave everything
\* is empty().
C3_SpliceTwoChains ==
    TwoChainSplice =>
        /\ WellFormed(Now, last.c, SpliceMem(old.mem, last.c, last.pos, last.d, last.from, last.to)[last.c])
        /\ WellFormed(Now, last.d, SpliceMem(old.mem, last.c, last.pos, last.d, last.from, last.to)[last.d])
        /\ (last.from = old.mem[last.d][1] /\ last.to = end(last.d)) => empty(Now, last.d)

\* all of a two-member donor went in front of a member of the receiver
C3_Witness ==
    /\ TwoChainSplice
    /\ Len(old.mem[last.d]) = 2 /\ mem[last.d] = <<>>
    /\ last.pos \in Elems
    /\ Len(mem[last.c]) = 3

\* ----------------------------------------------------------------- C4
SelfSpliceApart ==
    /\ SpliceCase /\ last.c = last.d
    /\ last.pos # last.to
    /\ WellFormed(old, last.c, old.mem[last.c])

\* C4: self-splice of a non-empty range with pos outside the range and not
\* last yields the sequence with the range moved before pos, forwards and
\* backwards; [1,2,3,4,5] with pos at 5 and range [2,4) becomes [1,4,2,3,5].
C4_SelfSplice ==
    SelfSpliceApart =>
        /\ WellFormed(Now, last.c, SpliceMem(old.mem, last.c, last.pos, last.c, last.from, last.to)[last.c])
        /\ (old.mem[last.c] = <<1, 2, 3, 4, 5>> /\ last.pos = 5 /\ last.from = 2 /\ last.to = 4)
            => Fwd(Now, last.c) = <<1, 4, 2, 3, 5>>

C4_Witness ==
    /\ SelfSpliceApart
    /\ old.mem[last.c] = <<1, 2, 3, 4, 5>> /\ last.pos = 5 /\ last.from = 2 /\ last.to = 4
    /\ Bwd(Now, last.c) = <<5, 3, 2, 4, 1>>

\* ----------------------------------------------------------------- C5
\* C5: self-splice with pos equal to last leaves the member sequence as it
\* was: no member is lost, forwards or backwards.
C5_SelfSpliceAtLast ==
    (SpliceCase /\ last.c = last.d /\ last.pos = last.to
        /\ WellFormed(old, last.c, old.mem[last.c]))
    => WellFormed(Now, last.c, old.mem[last.c])

\* ----------------------------------------------------------------- C6
\* C6: move construction, or move assignment to an empty target, leaves the
\* target with the source's former members in order (ending at the target's
\* own sentinel; begin() == end() and empty() when there were none) and the
\* source empty, and no pointer of the target refers to the source's sentinel.
C6_Move ==
    ((Called("move_construct") \/ Called("move_assign")) /\ old.mem[last.c] = <<>>)
    => /\ WellFormed(Now, last.c, old.mem[last.d])
       /\ old.mem[last.d] = <<>> => (begin(Now, last.c) = end(last.c) /\ empty(Now, last.c))
       /\ empty(Now, last.d) /\ Fwd(Now, last.d) = <<>>
       /\ first[last.c] # Sent(last.d)
       /\ prev[Sent(last.c)] # Sent(last.d)
       /\ \A m \in Range(mem[last.c]) : next[m] # Sent(last.d) /\ prev[m] # Sent(last.d)

\* ----------------------------------------------------------------- C7
\* C7: after any sequence of valid calls, empty() iff the chain has no
\* members iff begin() == end().
C7_EmptyIff ==
    \A c \in live :
        /\ empty(Now, c) <=> (mem[c] = <<>>)
        /\ empty(Now, c) <=> (begin(Now, c) = end(c))

\* ----------------------------------------------------------------- C8
\* C8: on a chain with member sequence S, push_front(x) makes the forward
\* iteration yield x then S, push_back(x) S then x, the backward iteration
\* the reverse, and end() is reached after |S|+1 steps.
C8_Push ==
    ((Called("push_front") \/ Called("push_back"))
        /\ WellFormed(old, last.c, old.mem[last.c]))
    => /\ Fwd(Now, last.c) =
            (IF Called("push_front") THEN <<last.x>> \o old.mem[last.c]
                                     ELSE Append(old.mem[last.c], last.x))
       /\ Bwd(Now, last.c) = Reverse(Fwd(Now, last.c))

\* ----------------------------------------------------------------- C9
\* C9: a chain with at least one member has front() the same element as
\* *begin(), the first member, and back() the same element as *(--end()),
\* the last member.
C9_FrontBack ==
    \A c \in live :
        mem[c] # <<>> =>
            /\ front(Now, c) = begin(Now, c)
            /\ front(Now, c) = mem[c][1]
            /\ back(Now, c) = prev[end(c)]
            /\ back(Now, c) = mem[c][Len(mem[c])]

\* ----------------------------------------------------------------- C10
\* C10: push_back(x) followed by pop_back() restores the chain: the same
\* sequence both ways, the same first and sentinel links, the same empty(),
\* and no other element's links changed.
C10_PushPopBack ==
    (Called("push_back;pop_back") /\ WellFormed(old, last.c, old.mem[last.c]))
    => /\ Fwd(Now, last.c) = old.mem[last.c]
       /\ Bwd(Now, last.c) = Reverse(old.mem[last.c])
       /\ first[last.c] = old.first[last.c]
       /\ prev[Sent(last.c)] = old.prev[Sent(last.c)]
       /\ next[Sent(last.c)] = old.next[Sent(last.c)]
       /\ empty(Now, last.c) <=> empty(old, last.c)
       /\ \A n \in Nodes \ {last.x} : prev[n] = old.prev[n] /\ next[n] = old.next[n]

\* ----------------------------------------------------------------- C11
\* C11: erase(insert(pos, x)) at any position of any chain (the empty chain
\* included) returns a cursor equal to pos and leaves the chain with its
\* original member sequence and its original empty() result.
C11_InsertErase ==
    (Called("insert;erase") /\ WellFormed(old, last.c, old.mem[last.c]))
    => /\ last.ret = last.pos
       /\ Fwd(Now, last.c) = old.mem[last.c]
       /\ Bwd(Now, last.c) = Reverse(old.mem[last.c])
       /\ empty(Now, last.c) <=> empty(old, last.c)

\* ----------------------------------------------------------------- C12
EraseMember ==
    /\ Called("erase") /\ last.pos \in Elems
    /\ WellFormed(old, last.c, old.mem[last.c])

\* C12: erase(pos) at a member m of a well-formed chain removes exactly m,
\* keeps the others in order both ways and returns the position that
\* followed m (end() if m was last); begin() is then the old second member
\* when m was first.  push_back of three elements and erase(++begin())
\* leaves the first and the third.
C12_Erase ==
    EraseMember =>
        LET q == old.mem[last.c]
            i == IdxOf(q, last.pos)
        IN  /\ Fwd(Now, last.c) = Without(q, last.pos)
            /\ Bwd(Now, last.c) = Reverse(Without(q, last.pos))
            /\ last.ret = (IF i = Len(q) THEN end(last.c) ELSE q[i + 1])
            /\ (i = 1 /\ Len(q) >= 2) => begin(Now, last.c) = q[2]
            /\ (Len(q) = 3 /\ last.pos = old.next[begin(old, last.c)])
                => Fwd(Now, last.c) = <<q[1], q[3]>>

\* 1, 2, 3 pushed, then erase(++begin())
C12_Witness ==
    /\ EraseMember
    /\ old.mem[last.c] = <<1, 2, 3>>
    /\ last.pos = old.next[begin(old, last.c)]
    /\ Fwd(Now, last.c) = <<1, 3>>

\* ----------------------------------------------------------------- C13
\* C13: unlink() on a Link with a previous neighbour p and a next neighbour n
\* sets p.next to n and n.prev to p, and in every case leaves the Link's own
\* prev and next both null.
C13_Unlink ==
    Called("unlink") =>
        LET e == last.x
            p == old.prev[e]
            n == old.next[e]
        IN  /\ (p # Null /\ n # Null) => (next[p] = n /\ prev[n] = p)
            /\ prev[e] = Null
            /\ next[e] = Null

\* ----------------------------------------------------------------- C14
\* the heap one unlink of e makes of the heap the call started from
OnceUnlinked(e) ==
    unlink([prev |-> old.prev, next |-> old.next, first |-> old.first, ok |-> TRUE], e)

\* C14: unlink() is idempotent: a second call right after the first, or one
\* call on a never-linked Link, changes no prev or next field of any other
\* Link.
C14_UnlinkIdempotent ==
    /\ Called("unlink;unlink") =>
          \A n \in Nodes \ {last.x} :
              /\ prev[n] = OnceUnlinked(last.x).prev[n]
              /\ next[n] = OnceUnlinked(last.x).next[n]
    /\ (Called("unlink") /\ old.prev[last.x] = Null /\ old.next[last.x] = Null) =>
          \A n \in Nodes \ {last.x} : prev[n] = old.prev[n] /\ next[n] = old.next[n]

\* ----------------------------------------------------------------- C15
\* the element the last call took out of its chain
Removed ==
    LET q == old.mem[last.c]
    IN  IF Called("erase") THEN last.pos
        ELSE IF Called("pop_front") THEN q[1]
        ELSE q[Len(q)]

\* C15: an element removed from a well-formed chain by erase, pop_front or
\* pop_back is fully detached afterwards: its prev and next are both null.
C15_RemovedDetached ==
    (/\ Called("erase") \/ Called("pop_front") \/ Called("pop_back")
     /\ WellFormed(old, last.c, old.mem[last.c])
     /\ Called("erase") => last.pos \in Elems)
    => /\ prev[Removed] = Null
       /\ next[Removed] = Null

\* ----------------------------------------------------------------- C16
\* C16: splice with a non-empty range changes at most the next of the link
\* before first (or donor.first), the prev of last, the next of the link
\* before pos (or the receiver's first), the prev of pos, the prev of first
\* and the next of the last member of the range; every other prev, next and
\* first, the interior links of the moved range included, is unchanged.
C16_SpliceFrame ==
    SpliceCase =>
        LET beforeFrom == old.prev[last.from]
            beforePos == old.prev[last.pos]
            lastOfRange == old.prev[last.to]
        IN  /\ \A n \in Nodes : prev[n] # old.prev[n] => n \in {last.from, last.pos, last.to}
            /\ \A n \in Nodes : next[n] # old.next[n] => n \in {beforeFrom, beforePos, lastOfRange}
            /\ \A k \in Chains : first[k] # old.first[k] =>
                   \/ k = last.d /\ beforeFrom = Null
                   \/ k = last.c /\ beforePos = Null

C16_Witness ==
    /\ TwoChainSplice
    /\ Len(old.mem[last.d]) = 3 /\ mem[last.d] = <<>>
    /\ LET m == old.mem[last.d][2]
       IN  /\ prev[m] = old.prev[m] /\ prev[m] = old.mem[last.d][1]
           /\ next[m] = old.next[m] /\ next[m] = old.mem[last.d][3]
    /\ Fwd(Now, last.c) = old.mem[last.d]

\* ----------------------------------------------------------------- C17
\* C17: destroying a former member that a chain dropped from its view by
\* clear() or as the target of a move-assignment does not change the chain's
\* current contents: the sentinel's prev, first and the links of the
\* chain's current members are unchanged.
C17_DestroyDropped ==
    Called("destroy") =>
        \A c \in live :
            last.x \in old.dropped[c] =>
                /\ prev[Sent(c)] = old.prev[Sent(c)]
                /\ first[c] = old.first[c]
                /\ \A m \in Range(old.mem[c]) :
                       prev[m] = old.prev[m] /\ next[m] = old.next[m]

\* ----------------------------------------------------------------- C18
\* C18: erase(end()) on a well-formed chain, empty or not, changes no link
\* and no first field and returns a cursor equal to end().
C18_EraseEnd ==
    (/\ Called("erase") /\ last.pos = end(last.c)
     /\ WellFormed(old, last.c, old.mem[last.c]))
    => /\ prev = old.prev
       /\ next = old.next
       /\ first = old.first
       /\ last.ret = end(last.c)

C18_Witness ==
    /\ Called("erase") /\ last.pos = end(last.c)
    /\ WellFormed(old, last.c, old.mem[last.c])
    /\ Len(old.mem[last.c]) = 2
    /\ Fwd(Now, last.c) = old.mem[last.c]
    /\ last.ret = end(last.c)

====
